---- MODULE Spec2Model ----
(***************************************************************************)
(* Stellar Life Simulator (src/app.js): the star records, the binary mass  *)
(* transfer, the animation loop and the UI handlers that mutate them.      *)
(*                                                                         *)
(* Numbers.  The program computes in IEEE doubles; the model computes the  *)
(* same expressions in fixed point on 32-bit integers:                     *)
(*   mass            tenths of a solar mass        (0.1 Msun  = 1)         *)
(*   time in years   units of 2000 years           (1 Myr     = 500)       *)
(*   wall clock      milliseconds                                          *)
(*   separation      hundredths of an AU           (0.5 AU    = 50)        *)
(*   transfer rate   thousandths of Msun per Myr   (0.01/Myr  = 10)        *)
(*   collapseProgress thousandths                  (1.0       = 1000)      *)
(*   dimensionless   ten-thousandths (FP)          (1.0       = 10000)     *)
(*   radii in AU     1e-7 AU                                               *)
(* Every product and quotient is rounded down to its unit.                 *)
(***************************************************************************)
EXTENDS Integers, Sequences, FiniteSets, TLC

(***************************************************************************)
(* Units and program constants                                             *)
(***************************************************************************)
\* years per unit of model time (the source's YEAR is one year)
UnitYears == 2000
MYR == 1000000 \div UnitYears
GYR == 1000000000 \div UnitYears
\* fate thresholds, in tenths of a solar mass
WD_MAX == 80
NS_MAX == 200
\* fixed-point scale of dimensionless quantities, and ln 2 on that scale
FP == 10000
LN2 == 6931

(***************************************************************************)
(* Fixed-point arithmetic standing for the double operations of the source *)
(***************************************************************************)
clamp(v, min, max) == IF v < min THEN min ELSE IF v > max THEN max ELSE v

\* floor(a * b / c) without leaving 32 bits (needs (c - 1) * b < 2^31)
MulDiv(a, b, c) == (a \div c) * b + ((a % c) * b) \div c

\* a * b and a / c on FP-scaled operands
FMul(a, b) == MulDiv(a, b, FP)

FDiv(a, c) ==
  LET q0 == a \div c
      r0 == a % c
      q1 == (r0 * 100) \div c
      r1 == (r0 * 100) % c
  IN  q0 * FP + q1 * 100 + (r1 * 100) \div c

RECURSIVE SqrtSearch(_, _, _)
SqrtSearch(x, lo, hi) ==
  IF lo >= hi THEN lo
  ELSE LET mid == (lo + hi + 1) \div 2
       IN  IF mid * mid <= x THEN SqrtSearch(x, mid, hi)
                              ELSE SqrtSearch(x, lo, mid - 1)

\* floor(sqrt(x)) for 0 <= x < 2^31
ISqrt(x) == SqrtSearch(x, 0, 46340)

\* ln x for FP <= x < 2 FP: 2 atanh((x - 1) / (x + 1))
LnSeries(x) ==
  LET z  == FDiv(x - FP, x + FP)
      z2 == FMul(z, z)
      z3 == FMul(z, z2)
      z5 == FMul(z3, z2)
      z7 == FMul(z5, z2)
  IN  2 * (z + z3 \div 3 + z5 \div 5 + z7 \div 7)

\* Math.log on an FP-scaled argument x > 0, FP-scaled result
RECURSIVE Ln(_)
Ln(x) ==
  IF x >= 2 * FP THEN Ln(x \div 2) + LN2
  ELSE IF x < FP THEN Ln(2 * x) - LN2
  ELSE LnSeries(x)

RECURSIVE ExpTerms(_, _, _)
ExpTerms(r, n, term) ==
  IF n > 8 \/ term = 0 THEN 0
  ELSE term + ExpTerms(r, n + 1, (term * r) \div (n * FP))

RECURSIVE Pow2(_)
Pow2(k) == IF k = 0 THEN 1 ELSE 2 * Pow2(k - 1)

\* e^y on an FP-scaled argument, FP-scaled result
Exp(y) ==
  LET k == y \div LN2
      r == y - k * LN2
      e == ExpTerms(r, 1, FP)
  IN  IF k >= 0 THEN e * Pow2(k) ELSE e \div Pow2(-k)

(***************************************************************************)
(* Stellar relations                                                       *)
(***************************************************************************)
\* 10^2.5 on the FP scale: a mass m in tenths is m / 10 solar masses
TenPow25 == 3162278

\* t_MS = 10 Gyr * M^(-2.5) = 10 Gyr * 10^2.5 / (m^2 * sqrt(m))
msLifetimeYears(mass) ==
  LET a == MulDiv(10 * GYR, TenPow25, FP) \div (mass * mass)
      s == ISqrt(mass * 1000000)
  IN  MulDiv(a, 1000, s)

\* R ~ M^0.8 in solar radii (FP scale), clamped to [0.05, 2000]
radiusRsun(mass) ==
  clamp(Exp((Ln(mass * (FP \div 10)) * 8) \div 10), (5 * FP) \div 100, 2000 * FP)

\* fateForMass with the thresholds on the other side
fateForMassInclusive(mass) ==
  IF mass <= WD_MAX THEN "White Dwarf"
  ELSE IF mass <= NS_MAX THEN "Neutron Star"
  ELSE "Black Hole"

fateForMass(mass) ==
  IF mass < WD_MAX THEN "White Dwarf"
  ELSE IF mass < NS_MAX THEN "Neutron Star"
  ELSE "Black Hole"

\* makeStar that records the mass it was given instead of the clamped mass
makeStarUnclampedInitial(initialMass) ==
  LET mass       == clamp(initialMass, 1, 500)
      tMS        == msLifetimeYears(mass)
      tProtostar == tMS \div 100
      tGiant     == tMS \div 10
      total      == tProtostar + tMS + tGiant
  IN  [ massInitial       |-> initialMass,
        massCurrent       |-> mass,
        age               |-> 0,
        tProtostar        |-> tProtostar,
        tMS               |-> tMS,
        tGiant            |-> tGiant,
        tTotal            |-> total,
        ended             |-> FALSE,
        fate              |-> fateForMass(mass),
        collapseAnimating |-> FALSE,
        collapseProgress  |-> 0,
        justEnded         |-> FALSE,
        hadSupernova      |-> FALSE ]

makeStar(initialMass) ==
  LET mass       == clamp(initialMass, 1, 500)
      tMS        == msLifetimeYears(mass)
      tProtostar == tMS \div 100
      tGiant     == tMS \div 10
      total      == tProtostar + tMS + tGiant
  IN  [ massInitial       |-> mass,
        massCurrent       |-> mass,
        age               |-> 0,
        tProtostar        |-> tProtostar,
        tMS               |-> tMS,
        tGiant            |-> tGiant,
        tTotal            |-> total,
        ended             |-> FALSE,
        fate              |-> fateForMass(mass),
        collapseAnimating |-> FALSE,
        collapseProgress  |-> 0,
        justEnded         |-> FALSE,
        hadSupernova      |-> FALSE ]

\* stageForStar with the supergiant test on the current mass
stageForStarByCurrentMass(star) ==
  IF star.ended THEN star.fate
  ELSE IF star.age < star.tProtostar THEN "Protostar"
  ELSE IF star.age < star.tProtostar + star.tMS THEN "Main Sequence"
  ELSE IF star.age < star.tTotal
       THEN (IF star.massCurrent >= 80 THEN "Supergiant" ELSE "Giant")
  ELSE star.fate

stageForStar(star) ==
  IF star.ended THEN star.fate
  ELSE IF star.age < star.tProtostar THEN "Protostar"
  ELSE IF star.age < star.tProtostar + star.tMS THEN "Main Sequence"
  ELSE IF star.age < star.tTotal
       THEN (IF star.massInitial >= 80 THEN "Supergiant" ELSE "Giant")
  ELSE star.fate

(***************************************************************************)
(* Binary helpers                                                          *)
(***************************************************************************)
\* Eggleton: RL/a = 0.49 q^(2/3) / (0.6 q^(2/3) + ln(1 + q^(1/3)))
rocheLobeRadiusAU(mDonor, mAccretor, sepAU) ==
  LET q       == clamp(FDiv(mDonor, mAccretor), FP \div 1000, 1000 * FP)
      q13     == Exp(Ln(q) \div 3)
      q23     == FMul(q13, q13)
      rlOverA == FDiv((49 * q23) \div 100, (6 * q23) \div 10 + Ln(FP + q13))
  IN  rlOverA * sepAU * 10

\* 1 AU = 215 R_sun; FP-scaled solar radii to 1e-7 AU
stellarRadiusAU(Rsun) == MulDiv(Rsun, 1000, 215)

(***************************************************************************)
(* State                                                                   *)
(***************************************************************************)
VARIABLES
  star1, star2,          \* state.star1, state.star2
  binary,                \* state.binary
  separationAU,          \* state.separationAU
  transferRatePerYear,   \* state.transferRatePerYear
  speed,                 \* state.speed
  running,               \* state.running
  explosions,            \* state.explosions: the ageMs of each live explosion
  lastTs,                \* timestamp of the previous frame, 0 when none
  pending,               \* tick callbacks handed to requestAnimationFrame
  autoScale,             \* els.autoScale.checked
  massPrimary,           \* els.massPrimary.value
  massSecondary,         \* els.massSecondary.value
  drawn,                 \* justEnded of <<star1, star2>> as the last draw pass saw it
  steps                  \* handlers run so far

vars == << star1, star2, binary, separationAU, transferRatePerYear, speed,
           running, explosions, lastTs, pending, autoScale, massPrimary,
           massSecondary, drawn, steps >>

(***************************************************************************)
(* Bounds of the model and the inputs the handlers are given               *)
(***************************************************************************)
MaxSteps == 7
MaxPending == 2
\* frame intervals in ms
FrameDeltas == {1000, 45000}
\* values given to the mass sliders (inside their range) and mass boxes
PrimarySliderMasses == {79}
PrimaryTypedMasses == {600}
SecondarySliderMasses == {79}
SecondaryTypedMasses == {0}
\* separations (hundredths of an AU), rates (thousandths of Msun per Myr)
TypedSeparations == {2}
TypedRates == {500}
SliderSpeeds == {1}
\* timeline positions, in quarters of its width
ScrubQuarters == {2, 4}

(***************************************************************************)
(* Mass transfer                                                           *)
(***************************************************************************)
\* resetStarTimes on the mass the star was created with
resetStarTimesFromInitial(star) ==
  LET tMS        == msLifetimeYears(star.massInitial)
      tProtostar == tMS \div 100
      tGiant     == tMS \div 10
  IN  [star EXCEPT !.tProtostar = tProtostar,
                   !.tMS        = tMS,
                   !.tGiant     = tGiant,
                   !.tTotal     = tProtostar + tMS + tGiant]

\* resetStarTimes that also restarts the star's clock
resetStarTimesAndAge(star) ==
  LET tMS        == msLifetimeYears(star.massCurrent)
      tProtostar == tMS \div 100
      tGiant     == tMS \div 10
  IN  [star EXCEPT !.tProtostar = tProtostar,
                   !.tMS        = tMS,
                   !.tGiant     = tGiant,
                   !.tTotal     = tProtostar + tMS + tGiant,
                   !.age        = 0]

resetStarTimes(star) ==
  LET tMS        == msLifetimeYears(star.massCurrent)
      tProtostar == tMS \div 100
      tGiant     == tMS \div 10
  IN  [star EXCEPT !.tProtostar = tProtostar,
                   !.tMS        = tMS,
                   !.tGiant     = tGiant,
                   !.tTotal     = tProtostar + tMS + tGiant]

\* never go below 0.1 Msun (one tenth)
maxTransferOf(donor, dm) ==
  IF dm < donor.massCurrent - 1 THEN dm ELSE donor.massCurrent - 1

\* transferMass that takes dm whatever the donor holds; the durations are
\* left alone, a star of no mass having no lifetime
transferMassUnfloored(donor, accretor, dm) ==
  IF dm <= 0 THEN << donor, accretor >>
  ELSE << [donor    EXCEPT !.massCurrent = donor.massCurrent - dm,
                           !.fate = fateForMass(donor.massCurrent - dm)],
          [accretor EXCEPT !.massCurrent = accretor.massCurrent + dm,
                           !.fate = fateForMass(accretor.massCurrent + dm)] >>

\* transferMass that credits the accretor with the uncapped dm
transferMassUncappedGain(donor, accretor, dm) ==
  LET maxTransfer == maxTransferOf(donor, dm)
      d1 == [donor    EXCEPT !.massCurrent = donor.massCurrent - maxTransfer]
      a1 == [accretor EXCEPT !.massCurrent = accretor.massCurrent + dm]
      d2 == [d1 EXCEPT !.fate = fateForMass(d1.massCurrent)]
      a2 == [a1 EXCEPT !.fate = fateForMass(a1.massCurrent)]
  IN  IF maxTransfer <= 0 THEN << donor, accretor >>
      ELSE << resetStarTimes(d2), resetStarTimes(a2) >>

\* the pair << donor, accretor >> after the transfer
transferMass(donor, accretor, dm) ==
  LET maxTransfer == maxTransferOf(donor, dm)
      d1 == [donor    EXCEPT !.massCurrent = donor.massCurrent - maxTransfer]
      a1 == [accretor EXCEPT !.massCurrent = accretor.massCurrent + maxTransfer]
      d2 == [d1 EXCEPT !.fate = fateForMass(d1.massCurrent)]
      a2 == [a1 EXCEPT !.fate = fateForMass(a1.massCurrent)]
  IN  IF maxTransfer <= 0 THEN << donor, accretor >>
      ELSE << resetStarTimes(d2), resetStarTimes(a2) >>

\* R > RL of a star of mass m beside a companion of mass mOther
overfill(m, mOther) ==
  stellarRadiusAU(radiusRsun(m)) > rocheLobeRadiusAU(m, mOther, separationAU)

\* rate * dtYears, in tenths of a solar mass
transferAmount(dtYears) == MulDiv(dtYears, transferRatePerYear, 100 * MYR)

\* doMassTransfer in which star1 gives whenever it overfills
doMassTransferAnyOverfill(s1, s2, dtYears) ==
  LET overfill1 == overfill(s1.massCurrent, s2.massCurrent)
      overfill2 == overfill(s2.massCurrent, s1.massCurrent)
      dm        == transferAmount(dtYears)
  IN  IF ~binary THEN << s1, s2 >>
      ELSE IF ~s1.ended /\ ~s2.ended
      THEN IF overfill1 THEN transferMass(s1, s2, dm)
           ELSE IF overfill2
                THEN LET r == transferMass(s2, s1, dm) IN << r[2], r[1] >>
           ELSE << s1, s2 >>
      ELSE << s1, s2 >>

\* doMassTransfer without the test on ended
doMassTransferIgnoringEnded(s1, s2, dtYears) ==
  LET overfill1 == overfill(s1.massCurrent, s2.massCurrent)
      overfill2 == overfill(s2.massCurrent, s1.massCurrent)
      dm        == transferAmount(dtYears)
  IN  IF ~binary THEN << s1, s2 >>
      ELSE IF overfill1 /\ ~overfill2 THEN transferMass(s1, s2, dm)
      ELSE IF overfill2 /\ ~overfill1
           THEN LET r == transferMass(s2, s1, dm) IN << r[2], r[1] >>
      ELSE << s1, s2 >>

\* the pair << s1, s2 >> after doMassTransfer
doMassTransfer(s1, s2, dtYears) ==
  LET overfill1 == overfill(s1.massCurrent, s2.massCurrent)
      overfill2 == overfill(s2.massCurrent, s1.massCurrent)
      dm        == transferAmount(dtYears)
  IN  IF ~binary THEN << s1, s2 >>
      ELSE IF ~s1.ended /\ ~s2.ended
      THEN IF overfill1 /\ ~overfill2 THEN transferMass(s1, s2, dm)
           ELSE IF overfill2 /\ ~overfill1
                THEN LET r == transferMass(s2, s1, dm) IN << r[2], r[1] >>
           ELSE << s1, s2 >>
      ELSE << s1, s2 >>

\* every handler run is counted, up to MaxSteps
callbackStep == steps < MaxSteps /\ steps' = steps + 1

\* a handler of the page starts between frames only, never between two
\* callbacks of one frame (lastTs >= 2, see tick)
step == lastTs < 2 /\ callbackStep

(***************************************************************************)
(* Rendering: the part of the draw pass that writes the stars              *)
(***************************************************************************)
\* a supernova starts in this draw of the star
\* the test of drawStarAtWorld on the current instead of the initial mass
startsSupernovaByCurrentMass(star) ==
  star.justEnded /\ star.massCurrent >= 80 /\ ~star.hadSupernova

startsSupernova(star) ==
  star.justEnded /\ star.massInitial >= 80 /\ ~star.hadSupernova

drawStarAtWorld(star) ==
  IF star.justEnded
  THEN [star EXCEPT !.hadSupernova = (@ \/ startsSupernova(star)),
                    !.justEnded    = FALSE]
  ELSE star

startSupernova(ex) == Append(ex, 0)

RECURSIVE ageExplosions(_, _)
ageExplosions(ex, dtMs) ==
  IF ex = << >> THEN << >>
  ELSE LET ageMs == Head(ex) + dtMs
           rest  == ageExplosions(Tail(ex), dtMs)
       IN  IF ageMs >= 2500 THEN rest ELSE << ageMs >> \o rest

updateExplosions(ex, dtMs) == ageExplosions(ex, dtMs)

\* drawStars that draws the primary only, also in binary mode
drawStarsPrimaryOnly(s1, s2, ex, bin) ==
  LET ex1 == IF startsSupernova(s1) THEN startSupernova(ex) ELSE ex
  IN  [ star1      |-> drawStarAtWorld(s1),
        star2      |-> s2,
        explosions |-> ex1,
        drawn      |-> << s1.justEnded, FALSE >> ]

\* drawStars on the stars s1, s2 and the explosions ex, in binary mode bin
drawStars(s1, s2, ex, bin) ==
  LET ex1 == IF startsSupernova(s1) THEN startSupernova(ex) ELSE ex
      ex2 == IF bin /\ startsSupernova(s2) THEN startSupernova(ex1) ELSE ex1
  IN  [ star1      |-> drawStarAtWorld(s1),
        star2      |-> IF bin THEN drawStarAtWorld(s2) ELSE s2,
        explosions |-> ex2,
        drawn      |-> << s1.justEnded, bin /\ s2.justEnded >> ]

\* updateUI: the draw pass is its only write to the state
updateUI(s1, s2, ex, bin) ==
  LET d == drawStars(s1, s2, ex, bin)
  IN  /\ star1' = d.star1
      /\ star2' = d.star2
      /\ explosions' = d.explosions
      /\ drawn' = d.drawn

(***************************************************************************)
(* Simulation loop                                                         *)
(***************************************************************************)
\* the loop body without the assignment age = tTotal
ageStarOvershoot(star, dtYears, dtMs) ==
  IF ~star.ended
  THEN IF dtYears >= star.tTotal - star.age
       THEN [star EXCEPT !.age               = star.age + dtYears,
                         !.ended             = TRUE,
                         !.collapseAnimating = TRUE,
                         !.collapseProgress  = 0,
                         !.justEnded         = TRUE]
       ELSE [star EXCEPT !.age = star.age + dtYears]
  ELSE IF star.collapseAnimating
  THEN LET p == star.collapseProgress + dtMs \div 2
       IN  IF p >= 1000
           THEN [star EXCEPT !.collapseProgress = 1000, !.collapseAnimating = FALSE]
           ELSE [star EXCEPT !.collapseProgress = p]
  ELSE star

\* the loop body without the cap of collapseProgress at 1
ageStarUncappedCollapse(star, dtYears, dtMs) ==
  IF ~star.ended
  THEN IF dtYears >= star.tTotal - star.age
       THEN [star EXCEPT !.age               = star.tTotal,
                         !.ended             = TRUE,
                         !.collapseAnimating = TRUE,
                         !.collapseProgress  = 0,
                         !.justEnded         = TRUE]
       ELSE [star EXCEPT !.age = star.age + dtYears]
  ELSE IF star.collapseAnimating
  THEN [star EXCEPT !.collapseProgress = star.collapseProgress + dtMs \div 2]
  ELSE star

\* the loop body of advanceTime for one participating star.  The source
\* adds dtYears and then tests age >= tTotal; the test is made on
\* dtYears >= tTotal - age, the same comparison kept inside 32 bits.
ageStar(star, dtYears, dtMs) ==
  IF ~star.ended
  THEN IF dtYears >= star.tTotal - star.age
       THEN [star EXCEPT !.age               = star.tTotal,
                         !.ended             = TRUE,
                         !.collapseAnimating = TRUE,
                         !.collapseProgress  = 0,
                         !.justEnded         = TRUE]
       ELSE [star EXCEPT !.age = star.age + dtYears]
  ELSE IF star.collapseAnimating
  THEN LET p == star.collapseProgress + dtMs \div 2
       IN  IF p >= 1000
           THEN [star EXCEPT !.collapseProgress = 1000, !.collapseAnimating = FALSE]
           ELSE [star EXCEPT !.collapseProgress = p]
  ELSE star

\* the aging loop over both stars, whatever state.binary is
agedStarsIgnoringBinary(dtYears, dtMs) ==
  << ageStar(star1, dtYears, dtMs), ageStar(star2, dtYears, dtMs) >>

\* << star1, star2 >> after the aging loop
agedStars(dtYears, dtMs) ==
  << ageStar(star1, dtYears, dtMs),
     IF binary THEN ageStar(star2, dtYears, dtMs) ELSE star2 >>

\* advanceTime that takes the transfer decision before the aging loop
advancedStarsTransferFirst(dtYears, dtMs) ==
  LET moved == doMassTransfer(star1, star2, dtYears)
  IN  << ageStar(moved[1], dtYears, dtMs),
         IF binary THEN ageStar(moved[2], dtYears, dtMs) ELSE moved[2] >>

\* << star1, star2 >> as advanceTime hands them to updateUI
advancedStars(dtYears, dtMs) ==
  LET aged == agedStars(dtYears, dtMs)
  IN  doMassTransfer(aged[1], aged[2], dtYears)

advanceTime(dtYears, dtMs) ==
  LET s == advancedStars(dtYears, dtMs)
  IN  updateUI(s[1], s[2], updateExplosions(explosions, dtMs), binary)

\* dtMs of a tick that takes every frame for the first one after Play
frameDtMsAlwaysFirst(delta) == 0

\* the callbacks that a frame still has to run when one of them starts:
\* all the scheduled ones at the start of a frame, lastTs - 1 once a
\* callback of this frame has run (see tick)
dueCallbacks == IF lastTs >= 2 THEN lastTs - 1 ELSE pending

\* ts - lastTs of a callback in the frame that comes delta ms after the
\* previous one: 0 after Play, and 0 for every further callback of a frame,
\* which is handed the same timestamp as the first
frameDtMs(delta) == IF lastTs = 0 \/ lastTs >= 2 THEN 0 ELSE delta

\* dtYears paced by the lifetime of the secondary in auto-scale mode
clockDtYearsBySecondary(dtMs) ==
  IF autoScale
  THEN LET yearsPerSecond == star2.tTotal \div 60
       IN  MulDiv(yearsPerSecond, dtMs, 1000)
  ELSE MulDiv(dtMs * speed, 10000000 \div UnitYears, 1000)

\* dtYears with the lifetime compressed into 30 instead of 60 seconds
clockDtYearsHalfMinute(dtMs) ==
  IF autoScale
  THEN LET yearsPerSecond == star1.tTotal \div 30
       IN  MulDiv(yearsPerSecond, dtMs, 1000)
  ELSE MulDiv(dtMs * speed, 10000000 \div UnitYears, 1000)

\* dtYears of a frame of dtMs
clockDtYears(dtMs) ==
  IF autoScale
  THEN LET yearsPerSecond == star1.tTotal \div 60
       IN  MulDiv(yearsPerSecond, dtMs, 1000)
  ELSE MulDiv(dtMs * speed, 10000000 \div UnitYears, 1000)

\* tick without the test of state.running: a callback left over from before
\* a Pause advances the stars and asks for the next frame
tickWithoutRunningTest(delta) ==
  /\ pending > 0
  /\ lastTs' = dueCallbacks
  /\ advanceTime(clockDtYears(frameDtMs(delta)), frameDtMs(delta))
  /\ UNCHANGED << binary, separationAU, transferRatePerYear, speed,
                  running, pending, autoScale, massPrimary, massSecondary >>
  /\ callbackStep


\* one tick callback runs, in the frame that comes delta ms after the
\* previous one.  Only ts - lastTs and the test lastTs = 0 are read, so
\* timestamps are counted from the previous frame, which is then at 1.  The
\* callbacks scheduled for one frame run one after the other with the same
\* timestamp and no other handler between them: while callbacks of the
\* running frame are still due, lastTs is 1 + their number.  Callbacks
\* that find running false return, all of them in one step.
tick(delta) ==
  /\ pending > 0
  /\ IF ~running
     THEN /\ pending' = 0
          /\ UNCHANGED << star1, star2, binary, separationAU, transferRatePerYear,
                          speed, running, explosions, lastTs, autoScale,
                          massPrimary, massSecondary, drawn >>
          /\ callbackStep
     ELSE /\ lastTs' = dueCallbacks
          /\ advanceTime(clockDtYears(frameDtMs(delta)), frameDtMs(delta))
          /\ UNCHANGED << binary, separationAU, transferRatePerYear, speed,
                          running, pending, autoScale, massPrimary, massSecondary >>
          /\ callbackStep

(***************************************************************************)
(* Timeline scrubbing                                                      *)
(***************************************************************************)
\* setSimulationAge that derives ended from the new age
setSimulationAgeReviving(ageYears) ==
  LET age1 == clamp(ageYears, 0, star1.tTotal)
      age2 == clamp(ageYears, 0, star2.tTotal)
      s1 == [star1 EXCEPT !.age = age1, !.ended = (age1 >= star1.tTotal)]
      s2 == IF binary
            THEN [star2 EXCEPT !.age = age2, !.ended = (age2 >= star2.tTotal)]
            ELSE star2
  IN  updateUI(s1, s2, explosions, binary)

\* setSimulationAge without the test of state.binary
setSimulationAgeBothStars(ageYears) ==
  LET s1 == [star1 EXCEPT !.age = clamp(ageYears, 0, star1.tTotal)]
      s2 == [star2 EXCEPT !.age = clamp(ageYears, 0, star2.tTotal)]
  IN  updateUI(s1, s2, explosions, binary)

setSimulationAge(ageYears) ==
  LET s1 == [star1 EXCEPT !.age = clamp(ageYears, 0, star1.tTotal)]
      s2 == IF binary
            THEN [star2 EXCEPT !.age = clamp(ageYears, 0, star2.tTotal)]
            ELSE star2
  IN  updateUI(s1, s2, explosions, binary)

\* a press on a timeline at quarter of its width
timelineScrub(quarter) ==
  /\ setSimulationAge(MulDiv(star1.tTotal, quarter, 4))
  /\ UNCHANGED << binary, separationAU, transferRatePerYear, speed, running,
                  lastTs, pending, autoScale, massPrimary, massSecondary >>
  /\ step

(***************************************************************************)
(* UI handlers                                                             *)
(***************************************************************************)
setBinaryEnabled(enabled) == binary' = enabled

massPrimaryInput(m) ==
  /\ massPrimary' = m
  /\ updateUI(makeStar(m),
              IF ~binary THEN makeStar(star2.massCurrent) ELSE star2,
              explosions, binary)
  /\ UNCHANGED << binary, separationAU, transferRatePerYear, speed, running,
                  lastTs, pending, autoScale, massSecondary >>
  /\ step

massPrimaryChange(typed) ==
  LET v == clamp(typed, 1, 500)
  IN  /\ massPrimary' = v
      /\ updateUI(makeStar(v), star2, explosions, binary)
      /\ UNCHANGED << binary, separationAU, transferRatePerYear, speed, running,
                      lastTs, pending, autoScale, massSecondary >>
      /\ step

binaryToggle ==
  /\ setBinaryEnabled(~binary)
  /\ updateUI(star1, star2, explosions, ~binary)
  /\ UNCHANGED << separationAU, transferRatePerYear, speed, running, lastTs,
                  pending, autoScale, massPrimary, massSecondary >>
  /\ step

massSecondaryInput(m) ==
  /\ massSecondary' = m
  /\ updateUI(star1, makeStar(m), explosions, binary)
  /\ UNCHANGED << binary, separationAU, transferRatePerYear, speed, running,
                  lastTs, pending, autoScale, massPrimary >>
  /\ step

massSecondaryChange(typed) ==
  LET v == clamp(typed, 1, 500)
  IN  /\ massSecondary' = v
      /\ updateUI(star1, makeStar(v), explosions, binary)
      /\ UNCHANGED << binary, separationAU, transferRatePerYear, speed, running,
                      lastTs, pending, autoScale, massPrimary >>
      /\ step

\* the separation slider and the separation box
applySep(typed) ==
  /\ separationAU' = clamp(typed, 1, 1000)
  /\ updateUI(star1, star2, explosions, binary)
  /\ UNCHANGED << binary, transferRatePerYear, speed, running, lastTs, pending,
                  autoScale, massPrimary, massSecondary >>
  /\ step

\* the transfer-rate slider and the transfer-rate box: v / MYR, no redraw
applyRate(typed) ==
  /\ transferRatePerYear' = clamp(typed, 0, 200)
  /\ UNCHANGED << star1, star2, binary, separationAU, speed, running,
                  explosions, lastTs, pending, autoScale, massPrimary,
                  massSecondary, drawn >>
  /\ step

speedInput(v) ==
  /\ speed' = v
  /\ UNCHANGED << star1, star2, binary, separationAU, transferRatePerYear,
                  running, explosions, lastTs, pending, autoScale, massPrimary,
                  massSecondary, drawn >>
  /\ step

\* the auto-scale checkbox has no handler: tick reads it
autoScaleToggle ==
  /\ autoScale' = ~autoScale
  /\ UNCHANGED << star1, star2, binary, separationAU, transferRatePerYear,
                  speed, running, explosions, lastTs, pending, massPrimary,
                  massSecondary, drawn >>
  /\ step

playPause ==
  /\ running' = ~running
  /\ IF ~running
     THEN /\ pending < MaxPending
          /\ lastTs' = 0
          /\ pending' = pending + 1
     ELSE UNCHANGED << lastTs, pending >>
  /\ UNCHANGED << star1, star2, binary, separationAU, transferRatePerYear,
                  speed, explosions, autoScale, massPrimary, massSecondary,
                  drawn >>
  /\ step

reset ==
  /\ running' = FALSE
  /\ updateUI(makeStar(massPrimary), makeStar(massSecondary), explosions, binary)
  /\ UNCHANGED << binary, separationAU, transferRatePerYear, speed, lastTs,
                  pending, autoScale, massPrimary, massSecondary >>
  /\ step

\* red-dwarf, sun and massive: a single star of the given mass
applySinglePreset(m) ==
  /\ massPrimary' = m
  /\ setBinaryEnabled(FALSE)
  /\ running' = FALSE
  /\ updateUI(makeStar(m), star2, explosions, FALSE)
  /\ UNCHANGED << separationAU, transferRatePerYear, speed, lastTs, pending,
                  autoScale, massSecondary >>
  /\ step

applyBinaryRlofPreset ==
  /\ massPrimary' = 12
  /\ setBinaryEnabled(TRUE)
  /\ massSecondary' = 8
  /\ separationAU' = 20
  /\ transferRatePerYear' = 20
  /\ running' = FALSE
  /\ updateUI(makeStar(12), makeStar(8), explosions, TRUE)
  /\ UNCHANGED << speed, lastTs, pending, autoScale >>
  /\ step

applyPreset(name) ==
  CASE name = "red-dwarf"   -> applySinglePreset(2)
    [] name = "sun"         -> applySinglePreset(10)
    [] name = "massive"     -> applySinglePreset(200)
    [] name = "binary-rlof" -> applyBinaryRlofPreset

\* resize, pan, zoom and focus only redraw
redraw ==
  /\ updateUI(star1, star2, explosions, binary)
  /\ UNCHANGED << binary, separationAU, transferRatePerYear, speed, running,
                  lastTs, pending, autoScale, massPrimary, massSecondary >>
  /\ step

(***************************************************************************)
(* Specification                                                           *)
(***************************************************************************)
Init ==
  /\ star1 = makeStar(10)
  /\ star2 = makeStar(8)
  /\ binary = FALSE
  /\ separationAU = 50
  /\ transferRatePerYear = 10
  /\ speed = 10
  /\ running = FALSE
  /\ explosions = << >>
  /\ lastTs = 0
  /\ pending = 0
  /\ autoScale \in BOOLEAN
  /\ massPrimary = 10
  /\ massSecondary = 8
  /\ drawn = << FALSE, FALSE >>
  /\ steps = 0

Next ==
  \/ \E delta \in FrameDeltas : tick(delta)
  \/ \E quarter \in ScrubQuarters : timelineScrub(quarter)
  \/ \E m \in PrimarySliderMasses : massPrimaryInput(m)
  \/ \E typed \in PrimaryTypedMasses : massPrimaryChange(typed)
  \/ \E m \in SecondarySliderMasses : massSecondaryInput(m)
  \/ \E typed \in SecondaryTypedMasses : massSecondaryChange(typed)
  \/ binaryToggle
  \/ \E typed \in TypedSeparations : applySep(typed)
  \/ \E typed \in TypedRates : applyRate(typed)
  \/ \E v \in SliderSpeeds : speedInput(v)
  \/ autoScaleToggle
  \/ playPause
  \/ reset
  \/ \E name \in {"red-dwarf", "sun", "massive", "binary-rlof"} : applyPreset(name)
  \/ redraw

Spec == Init /\ [][Next]_vars

\* the program once the user has set up a close binary before pressing
\* Play: primary slider at 7.9 Msun, binary mode on, separation 0.02 AU,
\* transfer rate at its maximum of 0.2 Msun per Myr
InitCloseBinary ==
  /\ star1 = makeStar(79)
  /\ star2 = makeStar(8)
  /\ binary = TRUE
  /\ separationAU = 2
  /\ transferRatePerYear = 200
  /\ speed = 10
  /\ running = FALSE
  /\ explosions = << >>
  /\ lastTs = 0
  /\ pending = 0
  /\ autoScale \in BOOLEAN
  /\ massPrimary = 79
  /\ massSecondary = 8
  /\ drawn = << FALSE, FALSE >>
  /\ steps = 0

SpecCloseBinary == InitCloseBinary /\ [][Next]_vars

\* the program right after the binary-rlof preset was chosen on the page as
\* it loads
InitRlofPreset ==
  /\ star1 = makeStar(12)
  /\ star2 = makeStar(8)
  /\ binary = TRUE
  /\ separationAU = 20
  /\ transferRatePerYear = 20
  /\ speed = 10
  /\ running = FALSE
  /\ explosions = << >>
  /\ lastTs = 0
  /\ pending = 0
  /\ autoScale \in BOOLEAN
  /\ massPrimary = 12
  /\ massSecondary = 8
  /\ drawn = << FALSE, FALSE >>
  /\ steps = 0

\* the handlers that only advance simulated time or set its pace
NextAdvancing ==
  \/ \E delta \in FrameDeltas : tick(delta)
  \/ \E v \in SliderSpeeds : speedInput(v)
  \/ autoScaleToggle
  \/ playPause

SpecRlofPreset == InitRlofPreset /\ [][NextAdvancing]_vars

\* frames at a constant interval that divides 60 s
PacingDeltas == {20000}
PacingMasses == 1 .. 500

\* a single star of any mass on the primary slider, created at age 0, with
\* auto-scale on
InitPacing ==
  /\ \E m \in PacingMasses : star1 = makeStar(m) /\ massPrimary = m
  /\ star2 = makeStar(8)
  /\ binary = FALSE
  /\ separationAU = 50
  /\ transferRatePerYear = 10
  /\ speed = 10
  /\ running = FALSE
  /\ explosions = << >>
  /\ lastTs = 0
  /\ pending = 0
  /\ autoScale = TRUE
  /\ massSecondary = 8
  /\ drawn = << FALSE, FALSE >>
  /\ steps = 0

NextPacing ==
  \/ \E delta \in PacingDeltas : tick(delta)
  \/ playPause

SpecPacing == InitPacing /\ [][NextPacing]_vars

\* frames at a constant interval with the page left alone
EvolvingDeltas == {1000, 45000}
EvolvingMasses == {8, 79}

\* the program right after Play was pressed on one or two stars of age 0,
\* at 0.02 AU and 0.2 solar masses per Myr, with auto-scale on or off
InitEvolving ==
  /\ \E m1 \in EvolvingMasses, m2 \in EvolvingMasses :
       /\ star1 = makeStar(m1) /\ massPrimary = m1
       /\ star2 = makeStar(m2) /\ massSecondary = m2
  /\ binary \in BOOLEAN
  /\ separationAU = 2
  /\ transferRatePerYear = 200
  /\ speed = 10
  /\ running = TRUE
  /\ explosions = << >>
  /\ lastTs = 0
  /\ pending = 1
  /\ autoScale \in BOOLEAN
  /\ drawn = << FALSE, FALSE >>
  /\ steps = 0

\* tick while running, as often as the browser has a frame
frame(delta) ==
  /\ running /\ pending > 0
  /\ lastTs' = dueCallbacks
  /\ advanceTime(clockDtYears(frameDtMs(delta)), frameDtMs(delta))
  /\ UNCHANGED << binary, separationAU, transferRatePerYear, speed, running,
                  pending, autoScale, massPrimary, massSecondary, steps >>

NextEvolving == \E delta \in EvolvingDeltas : frame(delta)

\* both stars of a binary, or the single star, have ended
allEnded == star1.ended /\ (binary => star2.ended)

\* the callback of the frame that comes delta ms after the previous one
\* would change the state: ENABLED << frame(delta) >>_vars, computed from
\* the operators frame is made of
frameChanges(delta) ==
  /\ running /\ pending > 0
  /\ LET dtMs == frameDtMs(delta)
         s    == advancedStars(clockDtYears(dtMs), dtMs)
         d    == drawStars(s[1], s[2], updateExplosions(explosions, dtMs),
                           binary)
     IN  << d.star1, d.star2, d.explosions, d.drawn, dueCallbacks >>
           # << star1, star2, explosions, drawn, lastTs >>

\* requestAnimationFrame(tick) at the end of tick: the browser runs the
\* callback it was asked for.  Weak fairness of the frames, written with
\* frameChanges for the enabling condition: a frame that would change the
\* state is not put off for ever
SpecEvolving ==
  /\ InitEvolving /\ [][NextEvolving]_vars
  /\ \/ []<>(\A delta \in EvolvingDeltas : ~frameChanges(delta))
     \/ []<><<NextEvolving>>_vars

(***************************************************************************)
(* Properties                                                              *)
(***************************************************************************)
starOf(i) == IF i = 1 THEN star1 ELSE star2

\* the stars advanceTime loops over
participates(i) == i = 1 \/ binary

\* the frame that comes delta ms after the previous one is advanced
advance(delta) == running /\ tick(delta)

\* the star a transfer of this frame would take from: the only one that
\* overfills, in binary mode, when no star is ended after the aging loop
soleDonor(i, aged) ==
  /\ binary
  /\ ~aged[1].ended /\ ~aged[2].ended
  /\ overfill(aged[i].massCurrent, aged[3 - i].massCurrent)
  /\ ~overfill(aged[3 - i].massCurrent, aged[i].massCurrent)

\* C1: a frame with dtYears >= tTotal - age ends a participating star that
\* had not ended: ended, age = tTotal exactly, collapseAnimating,
\* collapseProgress = 0, and justEnded raised for the draw pass of that
\* frame (which clears it); a frame with a smaller dtYears only adds
\* dtYears to age; a frame on an ended star raises justEnded no more and
\* leaves age alone.
C1_EndOfLifeTransition ==
  [][\A delta \in FrameDeltas : advance(delta) =>
       LET dtMs    == frameDtMs(delta)
           dtYears == clockDtYears(dtMs)
       IN  \A i \in {1, 2} : participates(i) =>
             IF starOf(i).ended
             THEN /\ starOf(i)'.ended
                  /\ starOf(i)'.age = starOf(i).age
                  /\ ~drawn'[i]
                  /\ ~starOf(i)'.justEnded
             ELSE IF dtYears >= starOf(i).tTotal - starOf(i).age
             THEN /\ starOf(i)'.ended
                  /\ starOf(i)'.age = starOf(i).tTotal
                  /\ starOf(i)'.age = starOf(i)'.tTotal
                  /\ starOf(i)'.collapseAnimating
                  /\ starOf(i)'.collapseProgress = 0
                  /\ drawn'[i]
                  /\ ~starOf(i)'.justEnded
             ELSE /\ ~starOf(i)'.ended
                  /\ starOf(i)'.age = starOf(i).age + dtYears
                  /\ starOf(i)'.collapseAnimating = starOf(i).collapseAnimating
                  /\ starOf(i)'.collapseProgress = starOf(i).collapseProgress
                  /\ ~drawn'[i]
                  /\ ~starOf(i)'.justEnded]_vars

\* the frame just drawn ended star1 at an age it had to be cut back to
C1_Witness ==
  /\ running /\ lastTs = 1
  /\ star1.ended /\ drawn[1]
  /\ star1.age = star1.tTotal
  /\ star1.collapseAnimating /\ star1.collapseProgress = 0

\* C2: in every frame what star1 loses is what star2 gains; when a star is
\* the donor the amount is min(rate * dtYears, donor.massCurrent - 0.1) if
\* that is positive and nothing otherwise; a timeline scrub moves no mass.
\* The sum of the two masses is therefore the one the stars were made with.
C2_MassConserved ==
  [][/\ \A delta \in FrameDeltas : advance(delta) =>
          LET dtMs    == frameDtMs(delta)
              dtYears == clockDtYears(dtMs)
              aged    == agedStars(dtYears, dtMs)
              dm      == MulDiv(dtYears, transferRatePerYear, 100 * MYR)
              lost(i) == starOf(i).massCurrent - starOf(i)'.massCurrent
              cap(i)  == IF dm < starOf(i).massCurrent - 1
                         THEN dm ELSE starOf(i).massCurrent - 1
          IN  /\ lost(1) + lost(2) = 0
              /\ star1'.massCurrent + star2'.massCurrent
                   = star1.massCurrent + star2.massCurrent
              /\ \A i \in {1, 2} :
                   /\ soleDonor(i, aged) =>
                        lost(i) = IF cap(i) > 0 THEN cap(i) ELSE 0
                   /\ lost(i) > 0 => soleDonor(i, aged)
     /\ \A quarter \in ScrubQuarters : timelineScrub(quarter) =>
          /\ star1'.massCurrent = star1.massCurrent
          /\ star2'.massCurrent = star2.massCurrent]_vars

\* mass has moved from star1 to star2 in a frame that the floor did not cut
C2_Witness ==
  /\ star1.massCurrent < star1.massInitial
  /\ star1.massCurrent > 1
  /\ star2.massCurrent > star2.massInitial
  /\ star1.massCurrent + star2.massCurrent = star1.massInitial + star2.massInitial

C4_TransferDecision ==
  [][\A delta \in FrameDeltas : advance(delta) =>
       LET dtMs    == frameDtMs(delta)
           dtYears == clockDtYears(dtMs)
           aged    == agedStars(dtYears, dtMs)
           dm      == MulDiv(dtYears, transferRatePerYear, 100 * MYR)
           cap(i)  == IF dm < starOf(i).massCurrent - 1
                      THEN dm ELSE starOf(i).massCurrent - 1
           changed == \/ star1'.massCurrent # star1.massCurrent
                      \/ star2'.massCurrent # star2.massCurrent
       IN  /\ changed <=> \E i \in {1, 2} : soleDonor(i, aged) /\ cap(i) > 0
           /\ \A i \in {1, 2} : (soleDonor(i, aged) /\ cap(i) > 0) =>
                /\ starOf(i)'.massCurrent < starOf(i).massCurrent
                /\ starOf(3 - i)'.massCurrent > starOf(3 - i).massCurrent]_vars

\* C4 as stated, without the condition on the amount: a frame changes a
\* massCurrent if and only if
\* binary mode is on, no star is ended and exactly one star overfills.
C4_AsStated ==
  [][\A delta \in FrameDeltas : advance(delta) =>
       LET dtMs    == frameDtMs(delta)
           dtYears == clockDtYears(dtMs)
           aged    == agedStars(dtYears, dtMs)
           changed == \/ star1'.massCurrent # star1.massCurrent
                      \/ star2'.massCurrent # star2.massCurrent
       IN  changed <=> \E i \in {1, 2} : soleDonor(i, aged)]_vars

\* the first frame after Play, of no duration, has run while star1 alone
\* overfilled beside a companion as young as itself, at a rate above 0
C4_Witness ==
  /\ running /\ lastTs = 1
  /\ transferRatePerYear > 0
  /\ soleDonor(1, << star1, star2 >>)
  /\ star1.age = 0 /\ star2.age = 0
  /\ star1.massCurrent = star1.massInitial
  /\ star2.massCurrent = star2.massInitial

\* C5: a frame that moves mass leaves both stars' massInitial, ended,
\* collapse flags, justEnded and hadSupernova as they were and their age
\* where the aging loop put it; fate and the four durations are those of
\* the new masses, the donor's tTotal greater and the accretor's smaller
\* than before.
C5_TransferFrame ==
  [][\A delta \in FrameDeltas : advance(delta) =>
       LET dtMs    == frameDtMs(delta)
           dtYears == clockDtYears(dtMs)
       IN  star1'.massCurrent # star1.massCurrent =>
             \A i \in {1, 2} :
               LET old == starOf(i)
                   new == starOf(i)'
                   tMS == msLifetimeYears(new.massCurrent)
               IN  /\ new.age = old.age + dtYears
                   /\ new.ended = old.ended /\ ~new.ended
                   /\ new.massInitial = old.massInitial
                   /\ new.collapseAnimating = old.collapseAnimating
                   /\ new.collapseProgress = old.collapseProgress
                   /\ new.justEnded = old.justEnded
                   /\ new.hadSupernova = old.hadSupernova
                   /\ new.fate = fateForMass(new.massCurrent)
                   /\ new.tMS = tMS
                   /\ new.tProtostar = tMS \div 100
                   /\ new.tGiant = tMS \div 10
                   /\ new.tTotal = tMS \div 100 + tMS + tMS \div 10
                   /\ new.massCurrent < old.massCurrent => new.tTotal > old.tTotal
                   /\ new.massCurrent > old.massCurrent => new.tTotal < old.tTotal]_vars

\* mass has moved between two stars of some age: the donor's clock is
\* longer and the accretor's shorter than the ones they were made with
C5_Witness ==
  /\ star1.massCurrent < star1.massInitial
  /\ star1.tTotal > makeStar(star1.massInitial).tTotal
  /\ star2.tTotal < makeStar(star2.massInitial).tTotal
  /\ star1.age > 0 /\ star2.age = star1.age
  /\ ~star1.ended /\ ~star2.ended

\* C6: every star has tMS = msLifetimeYears(massCurrent),
\* tProtostar = 0.01 tMS, tGiant = 0.10 tMS and
\* tTotal = tProtostar + tMS + tGiant > 0.
C6_Durations ==
  \A i \in {1, 2} :
    LET star == starOf(i)
    IN  /\ star.tMS = msLifetimeYears(star.massCurrent)
        /\ star.tProtostar = star.tMS \div 100
        /\ star.tGiant = star.tMS \div 10
        /\ star.tTotal = star.tProtostar + star.tMS + star.tGiant
        /\ star.tTotal > 0

\* a star whose mass, and main-sequence lifetime, is no longer the one it
\* was made with
C6_Witness ==
  \E i \in {1, 2} :
    /\ starOf(i).massCurrent # starOf(i).massInitial
    /\ starOf(i).tMS # msLifetimeYears(starOf(i).massInitial)
    /\ starOf(i).tMS = msLifetimeYears(starOf(i).massCurrent)

\* C7: every star's fate is White Dwarf if massCurrent < 8, Neutron Star if
\* 8 <= massCurrent < 20 and Black Hole if massCurrent >= 20.
C7_Fate ==
  \A i \in {1, 2} :
    LET star == starOf(i)
    IN  /\ star.massCurrent < 80 => star.fate = "White Dwarf"
        /\ (star.massCurrent >= 80 /\ star.massCurrent < 200) =>
             star.fate = "Neutron Star"
        /\ star.massCurrent >= 200 => star.fate = "Black Hole"

\* a star made a white dwarf that accretion has turned into a neutron star
C7_Witness ==
  \E i \in {1, 2} :
    /\ starOf(i).massInitial < 80
    /\ starOf(i).massCurrent >= 80
    /\ starOf(i).fate = "Neutron Star"

\* C8: a star that is ended before and after a step has the same fate and
\* the same massCurrent after it as before, whatever the step and whatever
\* its companion does.
C8_FatePermanent ==
  [][\A i \in {1, 2} : (starOf(i).ended /\ starOf(i)'.ended) =>
       /\ starOf(i)'.fate = starOf(i).fate
       /\ starOf(i)'.massCurrent = starOf(i).massCurrent]_vars

\* star1, ended and alone in overfilling its Roche lobe, has been through a
\* frame of its collapse beside a companion that is alive and has aged, at
\* a rate above 0, and holds the mass it was made with
C8_Witness ==
  /\ binary /\ running /\ lastTs = 1
  /\ transferRatePerYear > 0
  /\ star1.ended /\ star1.collapseProgress > 0
  /\ ~star2.ended /\ star2.age > 0
  /\ overfill(star1.massCurrent, star2.massCurrent)
  /\ ~overfill(star2.massCurrent, star1.massCurrent)
  /\ star1.massCurrent = star1.massInitial

\* C9: a frame, a timeline scrub, a binary toggle and a play/pause leave
\* an ended star ended; after any step at all a star that was ended is
\* either still ended or a star just made by makeStar.
C9_EndedTerminal ==
  [][\A i \in {1, 2} : starOf(i).ended =>
       /\ starOf(i)'.ended \/ starOf(i)' = makeStar(starOf(i)'.massInitial)
       /\ ( \/ \E delta \in FrameDeltas : tick(delta)
            \/ \E quarter \in ScrubQuarters : timelineScrub(quarter)
            \/ binaryToggle
            \/ playPause ) => starOf(i)'.ended]_vars

\* star1 ended, its collapse has since run to the end, and the timeline
\* has been scrubbed back
C9_Witness ==
  /\ star1.ended
  /\ ~star1.collapseAnimating /\ star1.collapseProgress = 1000
  /\ star1.age < star1.tTotal

\* C10: every star with ended = true has age = tTotal.
C10_AgeFrozen ==
  \A i \in {1, 2} : starOf(i).ended => starOf(i).age = starOf(i).tTotal

\* the state InitCloseBinary starts from, four handlers after Init
CloseBinarySetUp ==
  /\ star1 = makeStar(79) /\ star2 = makeStar(8)
  /\ binary /\ separationAU = 2 /\ transferRatePerYear = 200
  /\ ~running /\ lastTs = 0 /\ pending = 0 /\ explosions = << >>
  /\ massPrimary = 79 /\ massSecondary = 8 /\ speed = 10
  /\ drawn = << FALSE, FALSE >>

\* C11: in every frame a participating star that had not ended before the
\* frame has an age no smaller after it than before it.
C11_AgeMonotone ==
  [][\A delta \in FrameDeltas : advance(delta) =>
       \A i \in {1, 2} : (participates(i) /\ ~starOf(i).ended) =>
         starOf(i)'.age >= starOf(i).age]_vars

\* the supernovae started by a step: the stars whose hadSupernova it raises
supernovaStarted(i) == starOf(i)'.hadSupernova /\ ~starOf(i).hadSupernova

newExplosions ==
  (IF supernovaStarted(1) THEN << 0 >> ELSE << >>)
    \o (IF supernovaStarted(2) THEN << 0 >> ELSE << >>)

\* C12: a star's supernova starts in the frame that ends it, and only if
\* its massInitial is at least 8 Msun, whatever its massCurrent has become;
\* each start adds one explosion and raises hadSupernova, which then stays
\* raised, so that hadSupernova holds exactly for the ended stars of
\* massInitial >= 8 Msun and no star object has two supernovae.
C12_SupernovaOnce ==
  /\ [](\A i \in {1, 2} :
          starOf(i).hadSupernova <=>
            (starOf(i).ended /\ starOf(i).massInitial >= 80))
  /\ [][/\ \A delta \in FrameDeltas : advance(delta) =>
             /\ explosions' =
                  updateExplosions(explosions, frameDtMs(delta)) \o newExplosions
             /\ \A i \in {1, 2} :
                  /\ supernovaStarted(i) <=>
                       /\ participates(i)
                       /\ ~starOf(i).ended /\ starOf(i)'.ended
                       /\ starOf(i).massInitial >= 80
                  /\ starOf(i).hadSupernova => starOf(i)'.hadSupernova
        /\ (~ \E delta \in FrameDeltas : advance(delta)) =>
             /\ explosions' = explosions
             /\ \A i \in {1, 2} : ~supernovaStarted(i)]_vars

\* a star of massInitial >= 8 Msun has ended and its explosion is running
C12_Witness ==
  \E i \in {1, 2} :
    /\ starOf(i).massInitial >= 80 /\ starOf(i).ended
    /\ starOf(i).hadSupernova
    /\ explosions = << 0 >>

\* a star of massInitial < 8 Msun has ended above 8 Msun without supernova
C12_AccretorEnded ==
  \E i \in {1, 2} :
    /\ starOf(i).massInitial < 80 /\ starOf(i).massCurrent >= 80
    /\ starOf(i).ended /\ ~starOf(i).hadSupernova
    /\ explosions = << >>

\* C13: a press on the timeline at the age ageYears sets star1.age to
\* ageYears clamped to [0, star1.tTotal], sets star2.age to ageYears clamped
\* to [0, star2.tTotal] in binary mode only, and changes no other field of a
\* star and nothing else of the simulation.
C13_SetAge ==
  [][\A quarter \in ScrubQuarters : timelineScrub(quarter) =>
       LET ageYears == MulDiv(star1.tTotal, quarter, 4)
           age1 == IF ageYears < 0 THEN 0
                   ELSE IF ageYears > star1.tTotal THEN star1.tTotal
                   ELSE ageYears
           age2 == IF ageYears < 0 THEN 0
                   ELSE IF ageYears > star2.tTotal THEN star2.tTotal
                   ELSE ageYears
       IN  /\ star1' = [star1 EXCEPT !.age = age1]
           /\ star2' = IF binary THEN [star2 EXCEPT !.age = age2] ELSE star2
           /\ UNCHANGED << binary, separationAU, transferRatePerYear, speed,
                           running, explosions, lastTs, autoScale,
                           massPrimary, massSecondary >>]_vars

\* a press at the right end in binary mode that left the shorter-lived star2
\* at its own tTotal, below the age of star1, and both stars not ended
C13_Witness ==
  /\ binary /\ ~running /\ lastTs = 0
  /\ star1.age = star1.tTotal /\ star2.age = star2.tTotal
  /\ star2.tTotal < star1.tTotal
  /\ ~star1.ended /\ ~star2.ended

\* C14: the binary toggle changes no field of either star; while binary
\* mode is off, a frame and a press on the timeline leave every field of
\* star2 unchanged and move no mass.
C14_BinaryOff ==
  [][/\ binaryToggle => (star1' = star1 /\ star2' = star2)
     /\ \A delta \in FrameDeltas : (~binary /\ advance(delta)) =>
          /\ star2' = star2
          /\ star1'.massCurrent = star1.massCurrent
     /\ \A quarter \in ScrubQuarters : (~binary /\ timelineScrub(quarter)) =>
          /\ star2' = star2
          /\ star1'.massCurrent = star1.massCurrent]_vars

\* binary mode was switched off after star2 had aged and accreted; star1
\* alone overfills its Roche lobe and is ahead of star2 by the dtYears of
\* one auto-scaled frame of 1000 ms, which left star2 behind
C14_Witness ==
  /\ ~binary /\ running /\ lastTs = 1 /\ autoScale
  /\ ~star1.ended /\ ~star2.ended
  /\ star2.age > 0 /\ star2.massCurrent > star2.massInitial
  /\ star1.age = star2.age + clockDtYears(1000)
  /\ transferRatePerYear > 0
  /\ overfill(star1.massCurrent, star2.massCurrent)
  /\ ~overfill(star2.massCurrent, star1.massCurrent)

\* the star C15 describes for a mass already inside [0.1, 50] Msun
freshStar(mass) ==
  LET tMS == msLifetimeYears(mass)
  IN  [ massInitial       |-> mass,
        massCurrent       |-> mass,
        age               |-> 0,
        tProtostar        |-> tMS \div 100,
        tMS               |-> tMS,
        tGiant            |-> tMS \div 10,
        tTotal            |-> tMS \div 100 + tMS + tMS \div 10,
        ended             |-> FALSE,
        fate              |-> IF mass < 80 THEN "White Dwarf"
                              ELSE IF mass < 200 THEN "Neutron Star"
                              ELSE "Black Hole",
        collapseAnimating |-> FALSE,
        collapseProgress  |-> 0,
        justEnded         |-> FALSE,
        hadSupernova      |-> FALSE ]

clampedMass(m) == IF m < 1 THEN 1 ELSE IF m > 500 THEN 500 ELSE m

\* C15: every handler that creates a star leaves the star of its mass
\* clamped to [0.1, 50] Msun, with age 0, all flags false, collapseProgress
\* 0, the fate of that mass and the durations of that mass, whatever the
\* star it replaces was; makeStar of the unclamped mass, of the clamped mass
\* and of the same mass once more are that same star.
C15_CreateStar ==
  [][/\ \A typed \in PrimaryTypedMasses : massPrimaryChange(typed) =>
          /\ star1' = freshStar(clampedMass(typed))
          /\ makeStar(typed) = star1'
          /\ makeStar(clampedMass(typed)) = star1'
     /\ \A typed \in SecondaryTypedMasses : massSecondaryChange(typed) =>
          /\ star2' = freshStar(clampedMass(typed))
          /\ makeStar(typed) = star2'
          /\ makeStar(clampedMass(typed)) = star2'
     /\ \A m \in PrimarySliderMasses : massPrimaryInput(m) =>
          /\ star1' = freshStar(clampedMass(m))
          /\ ~binary => star2' = freshStar(clampedMass(star2.massCurrent))
     /\ \A m \in SecondarySliderMasses : massSecondaryInput(m) =>
          star2' = freshStar(clampedMass(m))
     /\ reset =>
          /\ star1' = freshStar(clampedMass(massPrimary))
          /\ star2' = freshStar(clampedMass(massSecondary))
          /\ makeStar(massPrimary) = star1'
     /\ \A name \in {"red-dwarf", "sun", "massive", "binary-rlof"} :
          applyPreset(name) => star1' = freshStar(massPrimary')]_vars

\* a reset has replaced a primary that had ended in a supernova whose
\* explosion is still on the screen
C15_Witness ==
  /\ ~binary /\ ~running /\ explosions # << >>
  /\ star2.massInitial < 80
  /\ star1 = makeStar(massPrimary)

\* C16: a star that has not ended is shown as Protostar while
\* age < tProtostar, as Main Sequence while tProtostar <= age <
\* tProtostar + tMS, and from there up to tTotal as Supergiant if its
\* massInitial is at least 8 Msun and as Giant otherwise, whatever its
\* massCurrent is.
C16_StageLabel ==
  \A i \in {1, 2} :
    LET star == starOf(i)
    IN  ~star.ended =>
          /\ star.age < star.tProtostar => stageForStar(star) = "Protostar"
          /\ (star.tProtostar <= star.age
                /\ star.age < star.tProtostar + star.tMS) =>
               stageForStar(star) = "Main Sequence"
          /\ (star.tProtostar + star.tMS <= star.age
                /\ star.age < star.tTotal /\ star.massInitial >= 80) =>
               stageForStar(star) = "Supergiant"
          /\ (star.tProtostar + star.tMS <= star.age
                /\ star.age < star.tTotal /\ star.massInitial < 80) =>
               stageForStar(star) = "Giant"

\* an accretor created below 8 Msun is past its main sequence with a
\* massCurrent above 8 Msun
C16_Witness ==
  \E i \in {1, 2} :
    /\ ~starOf(i).ended
    /\ starOf(i).massInitial < 80 /\ starOf(i).massCurrent >= 80
    /\ starOf(i).tProtostar + starOf(i).tMS <= starOf(i).age
    /\ starOf(i).age < starOf(i).tTotal

\* C17: in a run of the binary-rlof preset that only advances time, mass is
\* transferred at some step.  No mass moves once a star has ended, so the
\* transfer has to come before the first star ends: whenever a star of the
\* preset has ended, the masses are no longer the 1.2 and 0.8 Msun the
\* stars were created with.
C17_RlofTransfers ==
  (star1.ended \/ star2.ended) =>
    (star1.massCurrent < 12 \/ star2.massCurrent < 8)

\* neither star of the preset ever overfills its Roche lobe
C17_NeverOverfills ==
  /\ star1.massCurrent = 12 /\ star2.massCurrent = 8 /\ separationAU = 20
  /\ ~overfill(star1.massCurrent, star2.massCurrent)
  /\ ~overfill(star2.massCurrent, star1.massCurrent)

\* dtYears as C18 states it, from the state at the start of the frame; the
\* products are split so that they stay inside 32 bits
statedDtYears(dtMs) ==
  IF autoScale
  THEN LET perSecond == star1.tTotal \div 60
       IN  (perSecond \div 1000) * dtMs + ((perSecond % 1000) * dtMs) \div 1000
  ELSE dtMs * speed * (10000 \div UnitYears)

\* C18: in auto-scale mode a frame of dtMs advances simulated time by
\* (dtMs/1000) * (star1.tTotal/60), star1.tTotal being read at the start of
\* the frame and star2.tTotal never; in manual mode by
\* (dtMs/1000) * speed * 1e7.  Every participating star that has not
\* ended ages by that amount, or ends if that amount reaches what is left
\* of its life.
C18_ClockPerTick ==
  [][\A delta \in FrameDeltas : advance(delta) =>
       LET dtYears == statedDtYears(frameDtMs(delta))
       IN  \A i \in {1, 2} : (participates(i) /\ ~starOf(i).ended) =>
             IF dtYears >= starOf(i).tTotal - starOf(i).age
             THEN starOf(i)'.ended
             ELSE /\ ~starOf(i)'.ended
                  /\ starOf(i)'.age = starOf(i).age + dtYears]_vars

\* dtYears of an auto-scaled frame of 1000 ms for a star as it was created
createdFrameYears(star) == makeStar(star.massInitial).tTotal \div 60

\* two auto-scaled frames of 1000 ms, the second paced by the longer
\* lifetime that the transfer of the first left the primary with
C18_Witness ==
  /\ binary /\ autoScale /\ running /\ lastTs = 1
  /\ ~star1.ended /\ ~star2.ended
  /\ star1.massCurrent < star1.massInitial
  /\ star1.age = star2.age
  /\ star1.age > 2 * createdFrameYears(star1)
  /\ star1.age < 3 * createdFrameYears(star1)

\* wall-clock ms of frame deltas accumulated by a primary that has aged
\* from 0 in auto-scaled frames of delta ms and has kept its mass
elapsedMs(delta) == (star1.age \div clockDtYears(delta)) * delta

C19_EndedOnTime ==
  /\ running /\ autoScale /\ ~binary
  /\ star1.ended /\ star1.collapseAnimating /\ star1.collapseProgress = 0
  /\ 60 * (star1.tTotal \div 60) = star1.tTotal

\* the place of a displayed stage in the life-cycle order; every label that
\* is not one of the four stages is a fate
stageRank(star) ==
  LET stage == stageForStar(star)
  IN  IF stage = "Protostar" THEN 0
      ELSE IF stage = "Main Sequence" THEN 1
      ELSE IF stage \in {"Giant", "Supergiant"} THEN 2
      ELSE 3

\* C20: no frame moves the displayed stage of a star whose massCurrent the
\* frame has not lowered to an earlier place in the order Protostar, Main
\* Sequence, Giant or Supergiant, Ended(fate); stages may be skipped.
C20_StageOrder ==
  [][\A delta \in FrameDeltas : advance(delta) =>
       \A i \in {1, 2} :
         starOf(i)'.massCurrent >= starOf(i).massCurrent =>
           stageRank(starOf(i)') >= stageRank(starOf(i))]_vars

\* C20 as stated, for donors too
C20_AsStated ==
  [][\A delta \in FrameDeltas : advance(delta) =>
       \A i \in {1, 2} : stageRank(starOf(i)') >= stageRank(starOf(i))]_vars

\* a transfer has carried the accretor past its protostar phase, while the
\* donor, older than the protostar phase it was created with, is shown as
\* a protostar again
C20_Witness ==
  /\ binary /\ running /\ ~star1.ended /\ ~star2.ended
  /\ star2.massCurrent > star2.massInitial
  /\ stageRank(star2) >= 1
  /\ star1.massCurrent < star1.massInitial
  /\ star1.age >= makeStar(star1.massInitial).tProtostar
  /\ stageForStar(star1) = "Protostar"

\* C21: justEnded is false for both stars after every handler; the draw
\* pass of a frame sees justEnded raised exactly for the participating
\* stars which that frame ended, and that pass raises hadSupernova for
\* those of massInitial >= 8 Msun; no draw pass of another handler sees it
\* raised again.
C21_JustEndedHandshake ==
  /\ [](~star1.justEnded /\ ~star2.justEnded)
  /\ [][/\ \A delta \in FrameDeltas : advance(delta) =>
             \A i \in {1, 2} :
               /\ drawn'[i] <=>
                    (participates(i) /\ ~starOf(i).ended /\ starOf(i)'.ended)
               /\ drawn'[i] =>
                    (starOf(i)'.hadSupernova <=> starOf(i).massInitial >= 80)
        /\ (~ \E delta \in FrameDeltas : advance(delta)) =>
             (drawn' = drawn \/ drawn' = << FALSE, FALSE >>)]_vars

\* one frame ended both stars of a binary and its draw pass saw both
C21_Witness ==
  /\ binary /\ drawn = << TRUE, TRUE >>
  /\ star1.ended /\ star2.ended
  /\ ~star1.justEnded /\ ~star2.justEnded

\* C22: a frame first ages every participating star and applies its end of
\* life, then takes the transfer decision with the same dtYears.  A frame
\* in which a star ends moves no mass; a frame that moves mass takes
\* min(rate * dtYears, donor mass - 0.1) from one star, gives it to the
\* other, and has aged both stars by that same dtYears; the state after
\* the frame shows the aging and the transfer together.
C22_AgingBeforeTransfer ==
  [][\A delta \in FrameDeltas : (binary /\ advance(delta)) =>
       LET dtYears == clockDtYears(frameDtMs(delta))
           ends(i) == ~starOf(i).ended /\ starOf(i)'.ended
       IN  /\ (ends(1) \/ ends(2)) =>
                /\ star1'.massCurrent = star1.massCurrent
                /\ star2'.massCurrent = star2.massCurrent
           /\ star1'.massCurrent # star1.massCurrent =>
                /\ \A i \in {1, 2} :
                     starOf(i)'.age = starOf(i).age + dtYears
                /\ \E i \in {1, 2} :
                     LET dm == maxTransferOf(starOf(i), transferAmount(dtYears))
                     IN  /\ dm > 0
                         /\ starOf(i)'.massCurrent = starOf(i).massCurrent - dm
                         /\ starOf(3 - i)'.massCurrent =
                              starOf(3 - i).massCurrent + dm]_vars

\* the frame just drawn ended star1 while star2 aged on past the lifetime of
\* star1; star1 alone overfills its Roche lobe, the rate is positive, and
\* both stars still have the mass they were created with
C22_Witness ==
  /\ binary /\ drawn = << TRUE, FALSE >>
  /\ star1.ended /\ ~star2.ended
  /\ star2.age > star1.tTotal
  /\ transferRatePerYear > 0
  /\ star1.massCurrent = star1.massInitial
  /\ star2.massCurrent = star2.massInitial
  /\ overfill(star1.massCurrent, star2.massCurrent)
  /\ ~overfill(star2.massCurrent, star1.massCurrent)

\* C23: collapseProgress stays within [0, 1]; collapseAnimating holds only
\* for an ended star whose progress is below 1, and an ended star that is
\* not animating has progress 1.  The frame that ends a star leaves progress
\* 0 and collapseAnimating true; every later frame on a participating star
\* adds dtMs/2000 while collapseAnimating holds, and on reaching 1 holds it
\* at 1 and clears collapseAnimating; no step sets collapseAnimating again
\* on an ended star.  Progress thus grows in every frame of dtMs > 0 until
\* the animation is over.
C23_CollapseAnimation ==
  /\ [](\A i \in {1, 2} :
          /\ starOf(i).collapseProgress >= 0
          /\ starOf(i).collapseProgress <= 1000
          /\ starOf(i).collapseAnimating =>
               (starOf(i).ended /\ starOf(i).collapseProgress < 1000)
          /\ (starOf(i).ended /\ ~starOf(i).collapseAnimating) =>
               starOf(i).collapseProgress = 1000)
  /\ [][/\ \A i \in {1, 2} :
             (starOf(i).ended /\ ~starOf(i).collapseAnimating) =>
               ~starOf(i)'.collapseAnimating
        /\ \A delta \in FrameDeltas : advance(delta) =>
             \A i \in {1, 2} : participates(i) =>
               LET dtMs == frameDtMs(delta)
                   p    == starOf(i).collapseProgress + dtMs \div 2
               IN  /\ (~starOf(i).ended /\ starOf(i)'.ended) =>
                        /\ starOf(i)'.collapseProgress = 0
                        /\ starOf(i)'.collapseAnimating
                   /\ (starOf(i).ended /\ starOf(i).collapseAnimating) =>
                        /\ starOf(i)'.collapseProgress =
                             (IF p >= 1000 THEN 1000 ELSE p)
                        /\ starOf(i)'.collapseAnimating = (p < 1000)
                        /\ dtMs > 0 =>
                             starOf(i)'.collapseProgress
                               > starOf(i).collapseProgress]_vars

\* the collapse of star1 is half way after one frame of 1000 ms
C23_Witness ==
  /\ running /\ star1.ended
  /\ star1.collapseAnimating /\ star1.collapseProgress = 500

\* the collapse of star1 is over
C23_CollapseOver ==
  /\ running /\ star1.ended
  /\ ~star1.collapseAnimating /\ star1.collapseProgress = 1000

\* C24: the frame callbacks that run while running is false change no
\* star, no explosion and not lastTs, and ask for no further frame, so
\* that none is scheduled after them; Pause, Reset
\* and the presets leave running false and ask for no frame; Play sets
\* lastTs to 0 and asks for one frame, and the frame that finds lastTs = 0
\* has dtMs = 0: it adds nothing to an age or to a collapse and ages no
\* explosion.
C24_PauseStopsLoop ==
  [][/\ \A delta \in FrameDeltas : (~running /\ tick(delta)) =>
          /\ star1' = star1 /\ star2' = star2
          /\ explosions' = explosions
          /\ lastTs' = lastTs
          /\ ~running'
          /\ pending' = 0
     /\ (running /\ playPause) => (~running' /\ pending' = pending)
     /\ reset => (~running' /\ pending' = pending)
     /\ \A name \in {"red-dwarf", "sun", "massive", "binary-rlof"} :
          applyPreset(name) => (~running' /\ pending' = pending)
     /\ (~running /\ playPause) =>
          (running' /\ lastTs' = 0 /\ pending' = pending + 1)
     /\ \A delta \in FrameDeltas : (lastTs = 0 /\ advance(delta)) =>
          /\ \A i \in {1, 2} :
               /\ starOf(i)'.age = starOf(i).age
                    \/ (~starOf(i).ended /\ starOf(i)'.ended
                          /\ starOf(i).age >= starOf(i).tTotal)
               /\ starOf(i).ended =>
                    starOf(i)'.collapseProgress = starOf(i).collapseProgress
               /\ starOf(i)'.massCurrent = starOf(i).massCurrent
          /\ Len(explosions') >= Len(explosions)
          /\ pending' = pending]_vars

\* the loop has run frames, was paused, and the callback left over from
\* before the Pause has returned: aged stars at rest, nothing scheduled
C24_Witness ==
  /\ ~running /\ pending = 0 /\ lastTs = 1
  /\ star1.age > 0 /\ ~star1.ended

\* C25: whenever the two stars of a binary have the same current mass,
\* both get the same overfill verdict, and a frame advanced from such a
\* state changes neither current mass, neither fate and neither set of
\* durations, whatever the separation and the rate: equal masses stay
\* equal and at their value.
C25_EqualMasses ==
  /\ [](star1.massCurrent = star2.massCurrent =>
          (overfill(star1.massCurrent, star2.massCurrent)
             <=> overfill(star2.massCurrent, star1.massCurrent)))
  /\ [][\A delta \in FrameDeltas :
          (advance(delta) /\ binary
             /\ star1.massCurrent = star2.massCurrent) =>
            \A i \in {1, 2} :
              /\ starOf(i)'.massCurrent = starOf(i).massCurrent
              /\ starOf(i)'.fate = starOf(i).fate
              /\ starOf(i)'.tTotal = starOf(i).tTotal
              /\ starOf(i)'.tMS = starOf(i).tMS]_vars

\* two stars of 7.9 solar masses that both overfill their lobes have been
\* advanced by a frame of positive length at a positive rate, and still
\* have their mass
C25_Witness ==
  /\ binary /\ transferRatePerYear > 0
  /\ star1.massCurrent = 79 /\ star2.massCurrent = 79
  /\ overfill(star1.massCurrent, star2.massCurrent)
  /\ ~star1.ended /\ ~star2.ended
  /\ star1.age > 0 /\ star2.age > 0
  /\ running /\ lastTs = 1

\* C26: between any two operations every star has 0 <= age <= tTotal.
C26_AgeWithinLifetime ==
  \A i \in {1, 2} : 0 <= starOf(i).age /\ starOf(i).age <= starOf(i).tTotal

\* C27: in every state the stage shown for a star is one of the fates
\* (White Dwarf, Neutron Star, Black Hole) if and only if the star has
\* ended.
C27_FateLabelIffEnded ==
  \A i \in {1, 2} :
    stageForStar(starOf(i)) \in {"White Dwarf", "Neutron Star", "Black Hole"}
      <=> starOf(i).ended

\* C28: when frames of positive length keep coming and the page is left
\* alone, star1, and star2 in binary mode, have eventually ended.
C28_EventuallyEnds == <>allEnded

\* a frame of positive length leaves the age of a participating star that
\* has not ended larger than it was, or ends the star
C28_AgeGrows ==
  [][\A delta \in EvolvingDeltas :
       (frame(delta) /\ frameDtMs(delta) > 0) =>
         \A i \in {1, 2} : (participates(i) /\ ~starOf(i).ended) =>
           \/ starOf(i)'.age > starOf(i).age
           \/ starOf(i)'.ended]_vars

\* a donor stripped to 0.1 solar masses, whose tTotal has grown beyond
\* that of every star the sliders can create above it, has ended
C28_Witness ==
  \E i \in {1, 2} :
    /\ participates(i) /\ starOf(i).ended
    /\ starOf(i).massCurrent = 1 /\ starOf(i).massInitial = 79
    /\ starOf(i).age = starOf(i).tTotal
    /\ starOf(3 - i).ended

\* C29: at most one tick callback is scheduled at any time, whatever Play,
\* Pause, Reset and preset clicks come between the frames.
C29_SingleLoop == pending <= 1

\* the first of two callbacks of one frame has advanced the stars and the
\* second is due with the same timestamp
C29_TwoCallbacksInFrame == running /\ pending = 2 /\ lastTs = 2

\* C30: a step of either handler of the primary star's mass (slider or
\* typed box) leaves massInitial, massCurrent, age, ended, fate and the
\* durations of star2 as they were, in binary and in single-star mode.
C30_PrimaryMassOnly ==
  [][((\E m \in PrimarySliderMasses : massPrimaryInput(m))
        \/ (\E m \in PrimaryTypedMasses : massPrimaryChange(m))) =>
       /\ star2'.massInitial = star2.massInitial
       /\ star2'.massCurrent = star2.massCurrent
       /\ star2'.age = star2.age
       /\ star2'.ended = star2.ended
       /\ star2'.fate = star2.fate
       /\ star2'.tProtostar = star2.tProtostar
       /\ star2'.tMS = star2.tMS
       /\ star2'.tGiant = star2.tGiant
       /\ star2'.tTotal = star2.tTotal]_vars

====
